---- MODULE Spec2Model ----
(***************************************************************************)
(* busypenguin: Slack notifications for tasks using context managers.      *)
(* Model of busypenguin/classes.py: Message, Task and Subtask, the         *)
(* with-statement that drives their __enter__/__exit__, and the Slack      *)
(* side as seen through client.api_call.                                   *)
(*                                                                         *)
(* Encoding.  A Python str that the code computes with (body text, field   *)
(* value) is a sequence of one-character strings; the other attribute      *)
(* values (color, title, actions, callback_id, short) are atoms.  Python   *)
(* lists are sequences: Python index i is position i+1.                    *)
(***************************************************************************)
EXTENDS Integers, Sequences, FiniteSets, TLC

VARIABLES msg, task, subs, stack, exc, remote, op

vars == <<msg, task, subs, stack, exc, remote, op>>

----------------------------------------------------------------------------
(* Bounds *)

MaxFields == 2      \* add_field is not called on a list this long
MaxExtra  == 2      \* add_attachment is not called on a list this long
NSub      == 2      \* Subtask objects of the Task

----------------------------------------------------------------------------
(* Python values *)

None     == "None"          \* None where an atom is expected
NoneText == <<"None">>      \* None where a str is expected ("None" is no character)

\* truth value of an optional str: None and '' are false
TruthyText(v) == v # NoneText /\ v # <<>>
\* truth value of an exception type / atom
Truthy(v)     == v # None

UpperChars == <<"A","B","C","D","E","F","G","H","I","J","K","L","M",
                "N","O","P","Q","R","S","T","U","V","W","X","Y","Z">>
LowerChars == <<"a","b","c","d","e","f","g","h","i","j","k","l","m",
                "n","o","p","q","r","s","t","u","v","w","x","y","z">>

\* str.lower() of one character
lower(c) ==
    IF \E i \in 1..26 : UpperChars[i] = c
    THEN LowerChars[CHOOSE i \in 1..26 : UpperChars[i] = c]
    ELSE c

DigitChars == <<"0","1","2","3","4","5","6","7","8","9">>

\* decimal digits of a natural number, no padding
RECURSIVE DecStr(_)
DecStr(n) == IF n < 10 THEN <<DigitChars[n + 1]>>
             ELSE DecStr(n \div 10) \o <<DigitChars[(n % 10) + 1]>>

\* zero padding on the left up to a minimum width (format flag 0)
RECURSIVE ZeroPad(_, _)
ZeroPad(s, width) == IF Len(s) >= width THEN s ELSE ZeroPad(<<"0">> \o s, width)

\* f'{minutes:.0f}' of a whole float
FormatMinutes(minutes) == DecStr(minutes)

\* f'{seconds:02.02f}', seconds given in hundredths: precision 2, then the
\* whole string is zero padded to the minimum width 2
FormatSeconds(hundredths) ==
    ZeroPad(DecStr(hundredths \div 100) \o <<".">>
              \o <<DigitChars[((hundredths \div 10) % 10) + 1]>>
              \o <<DigitChars[(hundredths % 10) + 1]>>, 2)

\* f' (took {minutes:.0f}m {seconds:02.02f}s)' with (minutes, seconds) =
\* divmod(total_seconds, 60); total given in hundredths of a second
TookSuffix(total) ==
    <<" ","(","t","o","o","k"," ">> \o FormatMinutes(total \div 6000)
       \o <<"m"," ">> \o FormatSeconds(total % 6000) \o <<"s",")">>

StartedPrefix  == <<"S","t","a","r","t","e","d"," ">>
FinishedPrefix == <<"F","i","n","i","s","h","e","d"," ">>
FailedPrefix   == <<"F","a","i","l","e","d"," ">>

\* the Subtask glyphs
ArrowGlyph == <<":arrow_right:"," ">>
XGlyph     == <<":x:"," ">>
CheckGlyph == <<":heavy_check_mark:"," ">>

\* list indexing that takes no negative index
PyIndexOK_no_negative(list, i) == 0 <= i /\ i < Len(list)

\* Python list indexing: list[i] is defined for -len <= i < len
PyIndexOK(list, i) == -Len(list) <= i /\ i < Len(list)
\* indexing that always takes the first element
PyPos_first(list, i) == 1
PyPos(list, i)     == IF i >= 0 THEN i + 1 ELSE Len(list) + i + 1

----------------------------------------------------------------------------
(* class Message *)

Message_init(color, title, text, callback_id, actions) ==
    [main  |-> [color |-> color, title |-> title, text |-> text,
                fields |-> <<>>, callback_id |-> callback_id,
                actions |-> actions],
     extra |-> <<>>,
     ts    |-> None]

\* Message.update that stores every argument, None included
Message_update_stores_none(m, color, title, text, actions) ==
    [m EXCEPT !.main =
        [@ EXCEPT !.color = color, !.title = title, !.text = text,
                  !.actions = actions]]

\* Message.update: every argument that is not None overwrites its key
Message_update(m, color, title, text, actions) ==
    [m EXCEPT !.main =
        [@ EXCEPT !.color   = IF color   # None     THEN color   ELSE @,
                  !.title   = IF title   # None     THEN title   ELSE @,
                  !.text    = IF text    # NoneText THEN text    ELSE @,
                  !.actions = IF actions # None     THEN actions ELSE @]]

\* Message.add_field that returns the new length
Message_add_field_returns_len(m, title, value, short) ==
    LET fs == Append(m.main.fields,
                     [title |-> title, value |-> value, short |-> short])
    IN [m   |-> [m EXCEPT !.main.fields = fs],
        ret |-> Len(fs)]

\* Message.add_field: append, return len - 1
Message_add_field(m, title, value, short) ==
    LET fs == Append(m.main.fields,
                     [title |-> title, value |-> value, short |-> short])
    IN [m   |-> [m EXCEPT !.main.fields = fs],
        ret |-> Len(fs) - 1]

\* Message.update_field that stores every argument, None included
Message_update_field_stores_none(m, index, title, value, short) ==
    IF ~(-Len(m.main.fields) <= index /\ index < Len(m.main.fields))
    THEN [m |-> m, raised |-> "IndexError"]
    ELSE [m |-> [m EXCEPT !.main.fields[IF index >= 0 THEN index + 1
                                        ELSE Len(m.main.fields) + index + 1] =
                    [title |-> title, value |-> value, short |-> short]],
          raised |-> None]

\* Message.update_field: the list is indexed only for an argument that is
\* not None, so the first such argument raises IndexError on a bad index
Message_update_field(m, index, title, value, short) ==
    IF title = None /\ value = NoneText /\ short = None
    THEN [m |-> m, raised |-> None]
    ELSE IF ~PyIndexOK(m.main.fields, index)
    THEN [m |-> m, raised |-> "IndexError"]
    ELSE [m |-> [m EXCEPT !.main.fields[PyPos(m.main.fields, index)] =
                    [title |-> IF title # None     THEN title ELSE @.title,
                     value |-> IF value # NoneText THEN value ELSE @.value,
                     short |-> IF short # None     THEN short ELSE @.short]],
          raised |-> None]

\* Message.add_attachment that inserts at the front
Message_add_attachment_in_front(m, attachment) ==
    LET ex == <<attachment>> \o m.extra
    IN [m |-> [m EXCEPT !.extra = ex], ret |-> Len(ex) - 1]

\* Message.add_attachment: append, return len - 1
Message_add_attachment(m, attachment) ==
    LET ex == Append(m.extra, attachment)
    IN [m |-> [m EXCEPT !.extra = ex], ret |-> Len(ex) - 1]

\* Message.update_attachment: self.extra[index] = attachment
Message_update_attachment(m, index, attachment) ==
    IF ~PyIndexOK(m.extra, index)
    THEN [m |-> m, raised |-> "IndexError"]
    ELSE [m |-> [m EXCEPT !.extra[PyPos(m.extra, index)] = attachment],
          raised |-> None]

\* the attachment list without the supplementary attachments
Attachments_main_only(m) == <<m.main>>

\* attachments = [self.main] + self.extra
Attachments(m) == <<m.main>> \o m.extra

\* client.api_call as Message.publish uses it: the call either raises or
\* returns the response r, whose 'ts' is the id Slack gave the message.
\* net is the Slack side: the calls received from the running operation,
\* each with the attachments it carried, and the ids of the messages posted
\* to the channel so far
api_call(net, method, tsArg, attachments, outcome, newTs) ==
    [net |-> [calls   |-> Append(net.calls,
                                 [method |-> method, ts |-> tsArg,
                                  attachments |-> attachments,
                                  ok |-> (outcome = "ok")]),
              channel |-> IF outcome = "ok" /\ method = "chat.postMessage"
                          THEN Append(net.channel, newTs)
                          ELSE net.channel],
     raised |-> IF outcome = "ok" THEN None ELSE "RemoteError",
     r_ts   |-> newTs]

\* Message.publish that does not keep the ts of the response
Message_publish_forgets_ts(m, net, outcome, newTs) ==
    LET r == api_call(net, "chat.postMessage", None, Attachments(m), outcome, newTs)
    IN [m |-> m, net |-> r.net, raised |-> r.raised]

\* Message.publish that catches what api_call raises
Message_publish_catches(m, net, outcome, newTs) ==
    IF ~Truthy(m.ts)
    THEN LET r == api_call(net, "chat.postMessage", None, Attachments(m), outcome, newTs)
         IN [m      |-> IF r.raised = None THEN [m EXCEPT !.ts = r.r_ts] ELSE m,
             net    |-> r.net,
             raised |-> None]
    ELSE LET r == api_call(net, "chat.update", m.ts, Attachments(m), outcome, newTs)
         IN [m |-> m, net |-> r.net, raised |-> None]

\* Message.publish: chat.postMessage while self.ts is not set, then chat.update
Message_publish(m, net, outcome, newTs) ==
    IF ~Truthy(m.ts)
    THEN LET r == api_call(net, "chat.postMessage", None, Attachments(m), outcome, newTs)
         IN [m      |-> IF r.raised = None THEN [m EXCEPT !.ts = r.r_ts] ELSE m,
             net    |-> r.net,
             raised |-> r.raised]
    ELSE LET r == api_call(net, "chat.update", m.ts, Attachments(m), outcome, newTs)
         IN [m |-> m, net |-> r.net, raised |-> r.raised]

----------------------------------------------------------------------------
(* class Task *)

\* text[0].lower() + text[1:] if text else None
NormalizeText(text) ==
    IF TruthyText(text) THEN <<lower(Head(text))>> \o Tail(text) ELSE NoneText

\* the text Task.__init__ hands to Message
InitialMessageText(text, status_prefix) ==
    IF status_prefix
    THEN IF TruthyText(NormalizeText(text))
         THEN StartedPrefix \o NormalizeText(text) ELSE NoneText
    ELSE text

Task_init(color, title, text, callback_id, actions, status_prefix) ==
    [t |-> [text |-> NormalizeText(text), status_prefix |-> status_prefix,
            done |-> FALSE, phase |-> "constructed",
            start_time |-> 0, end_time |-> 0],
     m |-> Message_init(color, title, InitialMessageText(text, status_prefix),
                        callback_id, actions)]

\* what the with statement does with the result of __exit__(etype, ...):
\* an exception raised by __exit__ replaces the one in flight, a true return
\* value suppresses it, anything else lets it propagate
WithExit(etype, raisedInExit, ret) ==
    IF raisedInExit # None THEN raisedInExit
    ELSE IF etype # None /\ ret THEN None
    ELSE etype

\* return value of Task.__exit__ and Subtask.__exit__ (None: falsy)
ExitReturn == FALSE

\* exit text that never gets the prefix
ExitText_no_prefix(prefix, t) == t.text

\* text the Message gets at exit: the prefix only if status_prefix and self.text
ExitText(prefix, t) ==
    IF t.status_prefix /\ TruthyText(t.text) THEN prefix \o t.text ELSE t.text

TracebackAttachment(etype) ==
    [color |-> "danger",
     title |-> "Previous task raised following exception:",
     text  |-> <<"Traceback">> \o <<etype>>]

\* Task.__exit__ after self.text += ...: the branches on done and etype
Task_exit_body(m, t, etype) ==
    IF t.done THEN m
    ELSE IF Truthy(etype)
    THEN Message_add_attachment(
            Message_update(m, "danger", None, ExitText(FailedPrefix, t), None),
            TracebackAttachment(etype)).m
    ELSE Message_update(m, "good", None, ExitText(FinishedPrefix, t), None)

----------------------------------------------------------------------------
(* the program: one Task, its Message, NSub Subtasks, and the Slack side *)

SubIds == 1..NSub

BuildTheProject == <<"B","u","i","l","d"," ","t","h","e"," ",
                     "p","r","o","j","e","c","t">>
CustomStatus    == <<"C","u","s","t","o","m"," ","s","t","a","t","u","s">>

TaskTexts == {NoneText, BuildTheProject, CustomStatus}
SubTexts  == {<<"a">>, <<"b">>}
TsIds     == {"ts1", "ts2"}
Outcomes  == {"ok", "raise"}
\* elapsed time between __enter__ and __exit__, in hundredths of a second
Durations == {12, 7505}

\* the Slack side as an operation finds it
Net == [calls |-> <<>>, channel |-> remote]

\* op records the operation that led to the state: its name, the Subtask it
\* was called on (0: none), the exception type handed to an __exit__, the
\* index passed or returned, and the api calls it made
NoOp == [name |-> "init", sub |-> 0, etype |-> None, index |-> 0, calls |-> <<>>]
Op(name, sub, etype, index, callsMade) ==
    [name |-> name, sub |-> sub, etype |-> etype, index |-> index,
     calls |-> callsMade]

\* the scopes of the stack of active with statements: the Task, or a Subtask
TaskScope == 0
Top == IF stack = <<>> THEN -1 ELSE stack[Len(stack)]
Pop == SubSeq(stack, 1, Len(stack) - 1)

Subtask_init(text, short) ==
    [text |-> text, short |-> short, prefix |-> ArrowGlyph,
     index |-> 0, has_index |-> FALSE]

Init ==
    /\ \E text \in TaskTexts, sp \in BOOLEAN :
         LET c == Task_init("warning", "T", text, None, None, sp)
         IN task = c.t /\ msg = c.m
    /\ subs = [s \in SubIds |-> Subtask_init(<<"a">>, IF s = 1 THEN "False" ELSE "True")]
    /\ stack = <<>>
    /\ exc = None
    /\ remote = <<>>
    /\ op = NoOp

\* Task.__enter__, called by the with statement
Task_enter(outcome, newTs) ==
    /\ exc = None
    /\ task.phase = "constructed"
    /\   LET p == Message_publish(msg, Net, outcome, newTs)
         IN /\ msg' = p.m
            /\ remote' = p.net.channel
            /\ exc' = p.raised
            /\ op' = Op("Task.__enter__", 0, None, 0, p.net.calls)
            /\ IF p.raised = None
               THEN /\ task' = [task EXCEPT !.phase = "running", !.start_time = 0]
                    /\ stack' = Append(stack, TaskScope)
               ELSE UNCHANGED <<task, stack>>
    /\ UNCHANGED subs

\* Task.__exit__, called by the with statement when the block ends
\* (exc = None) or an exception unwinds through it
Task_exit(d, outcome, newTs) ==
    /\ Top = TaskScope
    /\ stack' = Pop
    /\ UNCHANGED subs
    /\   IF task.text = NoneText
         THEN \* self.text += ... on None
              /\ task' = [task EXCEPT !.phase = "exited", !.end_time = d]
              /\ exc' = WithExit(exc, "TypeError", ExitReturn)
              /\ op' = Op("Task.__exit__", 0, exc, 0, <<>>)
              /\ UNCHANGED <<msg, remote>>
         ELSE LET t == [task EXCEPT !.phase = "exited", !.end_time = d,
                                    !.text = @ \o TookSuffix(d - task.start_time)]
                  p == Message_publish(Task_exit_body(msg, t, exc), Net, outcome, newTs)
              IN /\ task' = t
                 /\ msg' = p.m
                 /\ remote' = p.net.channel
                 /\ exc' = WithExit(exc, p.raised, ExitReturn)
                 /\ op' = Op("Task.__exit__", 0, exc, 0, p.net.calls)

\* Task.publish, and Message.publish called on task.message
Task_publish(outcome, newTs) ==
    /\ exc = None
    /\   LET p == Message_publish(msg, Net, outcome, newTs)
         IN /\ msg' = p.m
            /\ remote' = p.net.channel
            /\ exc' = p.raised
            /\ op' = Op("Task.publish", 0, None, 0, p.net.calls)
    /\ UNCHANGED <<task, subs, stack>>

\* Task.update that publishes what it has changed
Task_update_publishes(color, title, text, actions) ==
    /\ exc = None
    /\ task.phase = "running"
    /\ LET p == Message_publish(Message_update(msg, color, title, text, actions),
                                Net, "ok", "ts1")
       IN /\ msg' = p.m
          /\ remote' = p.net.channel
          /\ op' = Op("Task.update", 0, None, 0, p.net.calls)
    /\ UNCHANGED <<task, subs, stack, exc>>

\* Task.update(color, title, text, actions), called by the block of the Task:
\* forwards to Message.update
Task_update(color, title, text, actions) ==
    /\ exc = None
    /\ task.phase = "running"
    /\ msg' = Message_update(msg, color, title, text, actions)
    /\ op' = Op("Task.update", 0, None, 0, <<>>)
    /\ UNCHANGED <<task, subs, stack, exc, remote>>

\* task.done = True, set by the block before it ends
Task_set_done ==
    /\ exc = None
    /\ task.phase = "running"
    /\ ~task.done
    /\ task' = [task EXCEPT !.done = TRUE]
    /\ op' = Op("Task.done", 0, None, 0, <<>>)
    /\ UNCHANGED <<msg, subs, stack, exc, remote>>

----------------------------------------------------------------------------
(* class Subtask *)

InStack(s) == \E i \in 1..Len(stack) : stack[i] = s

\* Subtask.__enter__, called by the with statement
Subtask_enter(s, outcome, newTs) ==
    /\ exc = None
    /\ ~InStack(s)
    /\ Len(msg.main.fields) < MaxFields
    /\   LET a == Message_add_field(msg, None, subs[s].prefix \o subs[s].text,
                                    subs[s].short)
             p == Message_publish(a.m, Net, outcome, newTs)
         IN /\ subs' = [subs EXCEPT ![s].index = a.ret, ![s].has_index = TRUE]
            /\ msg' = p.m
            /\ remote' = p.net.channel
            /\ exc' = p.raised
            /\ stack' = IF p.raised = None THEN Append(stack, s) ELSE stack
            /\ op' = Op("Subtask.__enter__", s, None, a.ret, p.net.calls)
    /\ UNCHANGED task

\* the glyphs of __exit__ exchanged
ExitGlyph_swapped(etype) == IF Truthy(etype) THEN CheckGlyph ELSE XGlyph

\* the glyph Subtask.__exit__ chooses
ExitGlyph(etype) == IF Truthy(etype) THEN XGlyph ELSE CheckGlyph

\* Subtask.__exit__, called by the with statement when the block ends
\* (exc = None) or an exception unwinds through it
Subtask_exit(s, outcome, newTs) ==
    /\ Top = s
    /\ stack' = Pop
    /\ UNCHANGED task
    /\   LET prefix == ExitGlyph(exc)
             u == Message_update_field(msg, subs[s].index, None,
                                       prefix \o subs[s].text, None)
             p == Message_publish(u.m, Net, outcome, newTs)
         IN /\ subs' = [subs EXCEPT ![s].prefix = prefix]
            /\ IF u.raised # None
               THEN /\ msg' = u.m
                    /\ exc' = WithExit(exc, u.raised, ExitReturn)
                    /\ op' = Op("Subtask.__exit__", s, exc, subs[s].index, <<>>)
                    /\ UNCHANGED remote
               ELSE /\ msg' = p.m
                    /\ remote' = p.net.channel
                    /\ exc' = WithExit(exc, p.raised, ExitReturn)
                    /\ op' = Op("Subtask.__exit__", s, exc, subs[s].index, p.net.calls)

\* Subtask.update without the comparison
Subtask_update_never_returns(sub, text) == FALSE

\* Subtask.update returns at once for the text the Subtask holds
Subtask_update_returns(sub, text) == sub.text = text

\* Subtask.update(text)
Subtask_update(s, text, outcome, newTs) ==
    /\ exc = None
    /\ UNCHANGED <<task, stack>>
    /\ IF Subtask_update_returns(subs[s], text)
       THEN /\ op' = Op("Subtask.update", s, None, subs[s].index, <<>>)
            /\ UNCHANGED <<msg, subs, exc, remote>>
       ELSE IF ~subs[s].has_index
       THEN \* self.index does not exist before __enter__
            /\ subs' = [subs EXCEPT ![s].text = text]
            /\ exc' = "AttributeError"
            /\ op' = Op("Subtask.update", s, None, subs[s].index, <<>>)
            /\ UNCHANGED <<msg, remote>>
       ELSE   LET u == Message_update_field(msg, subs[s].index, None,
                                            subs[s].prefix \o text, None)
                  p == Message_publish(u.m, Net, outcome, newTs)
              IN /\ subs' = [subs EXCEPT ![s].text = text]
                 /\ IF u.raised # None
                    THEN /\ msg' = u.m
                         /\ exc' = u.raised
                         /\ op' = Op("Subtask.update", s, None, subs[s].index, <<>>)
                         /\ UNCHANGED remote
                    ELSE /\ msg' = p.m
                         /\ remote' = p.net.channel
                         /\ exc' = p.raised
                         /\ op' = Op("Subtask.update", s, None, subs[s].index,
                                     p.net.calls)

----------------------------------------------------------------------------
(* calls on task.message made by the program itself *)

Msg_update(color, title, text, actions) ==
    /\ exc = None
    /\ msg' = Message_update(msg, color, title, text, actions)
    /\ op' = Op("Message.update", 0, None, 0, <<>>)
    /\ UNCHANGED <<task, subs, stack, exc, remote>>

Msg_add_field(title, value, short) ==
    /\ exc = None
    /\ Len(msg.main.fields) < MaxFields
    /\ LET a == Message_add_field(msg, title, value, short)
       IN /\ msg' = a.m
          /\ op' = Op("Message.add_field", 0, None, a.ret, <<>>)
    /\ UNCHANGED <<task, subs, stack, exc, remote>>

Msg_update_field(index, title, value, short) ==
    /\ exc = None
    /\ LET u == Message_update_field(msg, index, title, value, short)
       IN /\ msg' = u.m
          /\ exc' = u.raised
    /\ op' = Op("Message.update_field", 0, None, index, <<>>)
    /\ UNCHANGED <<task, subs, stack, remote>>

Msg_add_attachment(attachment) ==
    /\ exc = None
    /\ Len(msg.extra) < MaxExtra
    /\ LET a == Message_add_attachment(msg, attachment)
       IN /\ msg' = a.m
          /\ op' = Op("Message.add_attachment", 0, None, a.ret, <<>>)
    /\ UNCHANGED <<task, subs, stack, exc, remote>>

Msg_update_attachment(index, attachment) ==
    /\ exc = None
    /\ LET u == Message_update_attachment(msg, index, attachment)
       IN /\ msg' = u.m
          /\ exc' = u.raised
    /\ op' = Op("Message.update_attachment", 0, None, index, <<>>)
    /\ UNCHANGED <<task, subs, stack, remote>>

----------------------------------------------------------------------------
(* the code around the scopes *)

\* the block of the innermost active scope raises
Block_raise ==
    /\ exc = None
    /\ stack # <<>>
    /\ exc' = "BodyError"
    /\ op' = Op("raise", 0, None, 0, <<>>)
    /\ UNCHANGED <<msg, task, subs, stack, remote>>

UpdateArgs == {<<"good", None, <<"o","k">>, None>>}

\* the program whose calls to Slack all succeed
Next ==
    \/ \E newTs \in TsIds : Task_enter("ok", newTs)
    \/ \E d \in Durations, newTs \in TsIds : Task_exit(d, "ok", newTs)
    \/ \E newTs \in TsIds : Task_publish("ok", newTs)
    \/ \E a \in UpdateArgs : Task_update(a[1], a[2], a[3], a[4])
    \/ Task_set_done
    \/ \E s \in SubIds, newTs \in TsIds : Subtask_enter(s, "ok", newTs)
    \/ \E s \in SubIds, newTs \in TsIds : Subtask_exit(s, "ok", newTs)
    \/ \E s \in SubIds, text \in SubTexts, newTs \in TsIds :
          Subtask_update(s, text, "ok", newTs)
    \/ Block_raise

Spec == Init /\ [][Next]_vars

\* arguments of the calls the program makes on task.message itself
MsgUpdateArgs  == {<<None, None, NoneText, None>>,
                   <<"good", None, NoneText, None>>,
                   <<None, "T2", <<"o","k">>, "A2">>}
AddFieldArgs   == {<<None, NoneText, None>>, <<"F", <<"v">>, "True">>}
FieldArgs      == {<<None, NoneText, None>>,
                   <<"G", NoneText, None>>,
                   <<None, <<"w">>, "False">>}
FieldIndexes   == -(MaxFields + 1) .. MaxFields
ExtraIndexes   == -(MaxExtra + 1) .. MaxExtra
UserAttachment == [color |-> "good", title |-> "U", text |-> <<"u">>]
NewAttachment  == [color |-> "warning", title |-> "V", text |-> <<"n">>]

\* the program that works on the Message of a Task directly
NextMsg ==
    \/ \E a \in MsgUpdateArgs : Msg_update(a[1], a[2], a[3], a[4])
    \/ \E a \in AddFieldArgs : Msg_add_field(a[1], a[2], a[3])
    \/ \E i \in FieldIndexes, a \in FieldArgs : Msg_update_field(i, a[1], a[2], a[3])
    \/ Msg_add_attachment(UserAttachment)
    \/ \E i \in ExtraIndexes : Msg_update_attachment(i, NewAttachment)
    \/ \E newTs \in TsIds : Task_publish("ok", newTs)

\* ... of the Task constructed with text 'Build the project'
InitMsg ==
    /\ Init
    /\ task.status_prefix
    /\ task.text = NormalizeText(BuildTheProject)

SpecMsg == InitMsg /\ [][NextMsg]_vars

\* the program that uses the scopes of that Task and its Subtasks and also
\* adds and replaces fields and attachments itself
NextLists ==
    \/ Task_enter("ok", "ts1")
    \/ Task_exit(12, "ok", "ts1")
    \/ Task_publish("ok", "ts1")
    \/ \E s \in SubIds : Subtask_enter(s, "ok", "ts1")
    \/ \E s \in SubIds : Subtask_exit(s, "ok", "ts1")
    \/ \E s \in SubIds : Subtask_update(s, <<"b">>, "ok", "ts1")
    \/ Block_raise
    \/ Msg_add_field("F", <<"v">>, "True")
    \/ \E i \in FieldIndexes : Msg_update_field(i, "G", NoneText, None)
    \/ Msg_add_attachment(UserAttachment)
    \/ \E i \in ExtraIndexes : Msg_update_attachment(i, NewAttachment)

SpecLists == InitMsg /\ [][NextLists]_vars

\* the program of Spec with calls to Slack that may fail
NextFail ==
    \/ \E o \in Outcomes, newTs \in TsIds : Task_enter(o, newTs)
    \/ \E d \in Durations, o \in Outcomes, newTs \in TsIds : Task_exit(d, o, newTs)
    \/ \E o \in Outcomes, newTs \in TsIds : Task_publish(o, newTs)
    \/ \E a \in UpdateArgs : Task_update(a[1], a[2], a[3], a[4])
    \/ Task_set_done
    \/ \E s \in SubIds, o \in Outcomes, newTs \in TsIds : Subtask_enter(s, o, newTs)
    \/ \E s \in SubIds, o \in Outcomes, newTs \in TsIds : Subtask_exit(s, o, newTs)
    \/ \E s \in SubIds, text \in SubTexts, o \in Outcomes, newTs \in TsIds :
          Subtask_update(s, text, o, newTs)
    \/ Block_raise

SpecFail == Init /\ [][NextFail]_vars

\* the program that changes the Message of that Task in memory, through
\* Task.update inside the scope and through the Message itself, and
\* publishes now and then
NextMem ==
    \/ Task_enter("ok", "ts1")
    \/ Task_publish("ok", "ts1")
    \/ \E a \in UpdateArgs : Task_update(a[1], a[2], a[3], a[4])
    \/ Msg_update(None, "T2", NoneText, "A2")
    \/ Msg_add_field("F", <<"v">>, "True")
    \/ \E i \in FieldIndexes : Msg_update_field(i, None, <<"w">>, "False")
    \/ Msg_add_attachment(UserAttachment)
    \/ \E i \in ExtraIndexes : Msg_update_attachment(i, NewAttachment)

SpecMem == InitMsg /\ [][NextMem]_vars

----------------------------------------------------------------------------
(* Properties *)

IsExit(o)  == o.name \in {"Task.__exit__", "Subtask.__exit__"}
\* the primary attachment carried by the only api call of operation o
SentMain(o) == o.calls[1].attachments[1]
\* elapsed time measured by Task.__exit__
Elapsed(t) == t.end_time - t.start_time

\* C1: every api call made while no message has been posted to the channel
\* is a chat.postMessage that posts one, every api call made after that is a
\* chat.update addressed by the id Slack returned for the posted message,
\* whatever operation publishes; the channel never holds a second message.
C1_CreateOnceThenUpdate ==
    /\ [](Len(remote) <= 1)
    /\ [][\A i \in 1..Len(op'.calls) :
            IF remote = <<>>
            THEN /\ op'.calls[i].method = "chat.postMessage"
                 /\ Len(remote') = 1
                 /\ msg'.ts = remote'[1]
            ELSE /\ op'.calls[i].method = "chat.update"
                 /\ op'.calls[i].ts = remote[1]
                 /\ remote' = remote]_vars

\* inside the running Task, a Subtask exit has sent a chat.update addressed
\* by ts2, the id under which the message was created
C1_Witness ==
    /\ op.name = "Subtask.__exit__"
    /\ op.calls # <<>>
    /\ op.calls[1].method = "chat.update"
    /\ op.calls[1].ts = "ts2"
    /\ remote = <<"ts2">>
    /\ task.phase = "running"

\* C2: after every __exit__ of a Task or a Subtask that was handed an
\* exception, the handler has published once and the same exception is still
\* in flight.
C2_ErrorNeverSwallowed ==
    (IsExit(op) /\ op.etype # None) => (exc = op.etype /\ Len(op.calls) = 1)

\* the same for the exits that find a body text to extend
C2_HoldsWithText ==
    (IsExit(op) /\ op.etype # None /\ (op.name = "Task.__exit__" => task.text # NoneText))
        => (exc = op.etype /\ Len(op.calls) = 1)

\* C3: a Task with status_prefix and text t publishes 'Started ' + t on
\* entry; its exit (done not set) publishes once, with color good and text
\* 'Finished ' + t + suffix and no new attachment when no exception was
\* handed in, and with color danger, text 'Failed ' + t + suffix and exactly
\* one new attachment (color danger, the trace) when one was.
C3_StartedFinishedFailed ==
    [][(task.status_prefix /\ TruthyText(task.text) /\ ~task.done) =>
         /\ op'.name = "Task.__enter__" =>
               /\ Len(op'.calls) = 1
               /\ SentMain(op').text = StartedPrefix \o task.text
         /\ op'.name = "Task.__exit__" =>
               LET t == task.text \o TookSuffix(Elapsed(task'))
               IN /\ Len(op'.calls) = 1
                  /\ op'.calls[1].attachments = Attachments(msg')
                  /\ IF op'.etype = None
                     THEN /\ msg'.main.color = "good"
                          /\ msg'.main.text = FinishedPrefix \o t
                          /\ msg'.extra = msg.extra
                     ELSE /\ msg'.main.color = "danger"
                          /\ msg'.main.text = FailedPrefix \o t
                          /\ Len(msg'.extra) = Len(msg.extra) + 1
                          /\ SubSeq(msg'.extra, 1, Len(msg.extra)) = msg.extra
                          /\ msg'.extra[Len(msg'.extra)].color = "danger"
                          /\ msg'.extra[Len(msg'.extra)].text
                                = <<"Traceback", op'.etype>>]_vars

\* the Task 'Build the project' has failed: 'Failed build the project (took
\* 0m ...s)' and the trace attachment are published
C3_Witness ==
    /\ op.name = "Task.__exit__"
    /\ op.etype = "BodyError"
    /\ task.status_prefix
    /\ ~task.done
    /\ Len(op.calls) = 1
    /\ SentMain(op).text
         = FailedPrefix \o NormalizeText(BuildTheProject) \o TookSuffix(12)
    /\ Len(msg.extra) = 1

\* C4: the Task built with status_prefix=False and text 'Custom status'
\* publishes that text on entry and, on exit, that text followed by the
\* elapsed-time suffix and nothing else: no prefix, no other change.
C4_OnlySuffixAppended ==
    (/\ ~task.status_prefix
     /\ ~task.done
     /\ Len(op.calls) = 1
     /\ \/ task.text = NormalizeText(CustomStatus)
        \/ task.text = NormalizeText(CustomStatus) \o TookSuffix(Elapsed(task)))
    => /\ op.name = "Task.__enter__" => SentMain(op).text = CustomStatus
       /\ op.name = "Task.__exit__" =>
             SentMain(op).text = CustomStatus \o TookSuffix(Elapsed(task))

\* the part of C4 about the prefixes: the text published by that Task on
\* exit starts with none of 'Started ', 'Finished ', 'Failed '
C4_NoPrefix ==
    (/\ ~task.status_prefix
     /\ ~task.done
     /\ Len(op.calls) = 1
     /\ op.name = "Task.__exit__"
     /\ task.text = NormalizeText(CustomStatus) \o TookSuffix(Elapsed(task)))
    => SentMain(op).text = NormalizeText(CustomStatus) \o TookSuffix(Elapsed(task))

\* C5: the exit of a Task whose done flag is set publishes once and leaves
\* the Message as it was (color, text, fields, attachments), whether or not
\* an exception was handed in; the Task's own text gets the suffix.
C5_DoneRepublishesUnchanged ==
    [][(op'.name = "Task.__exit__" /\ task.done) =>
          /\ Len(op'.calls) = 1
          /\ op'.calls[1].attachments = Attachments(msg)
          /\ msg'.main = msg.main
          /\ msg'.extra = msg.extra
          /\ task'.text = task.text \o TookSuffix(Elapsed(task'))]_vars

\* the same for the Tasks that have a body text
C5_HoldsWithText ==
    [][(op'.name = "Task.__exit__" /\ task.done /\ task.text # NoneText) =>
          /\ Len(op'.calls) = 1
          /\ op'.calls[1].attachments = Attachments(msg)
          /\ msg'.main = msg.main
          /\ msg'.extra = msg.extra
          /\ task'.text = task.text \o TookSuffix(Elapsed(task'))]_vars

\* value of the field a Subtask operation o worked on (o.index is the index
\* the Subtask holds)
FieldValue(m, o) == m.main.fields[o.index + 1].value

\* C6: Subtask.update with the text the Subtask holds changes nothing and
\* makes no api call; with another text, on a Subtask that has reserved its
\* field, it stores the text, sets the field's value to glyph + text and
\* publishes exactly once.
C6_UpdateNoopOrOnePublish ==
    [][\A s \in SubIds, text \in SubTexts, newTs \in TsIds :
         Subtask_update(s, text, "ok", newTs) =>
            IF text = subs[s].text
            THEN /\ UNCHANGED <<msg, task, subs, stack, exc, remote>>
                 /\ op'.calls = <<>>
            ELSE subs[s].has_index =>
                 /\ subs' = [subs EXCEPT ![s].text = text]
                 /\ msg'.main.fields =
                       [msg.main.fields EXCEPT ![subs[s].index + 1].value
                                                    = subs[s].prefix \o text]
                 /\ Len(op'.calls) = 1
                 /\ op'.calls[1].attachments = Attachments(msg')
                 /\ exc' = None]_vars

\* a running Subtask built with 'a' has been updated to 'b': its field
\* reads ':arrow_right: b' and one chat.update carried it
C6_Witness ==
    /\ op.name = "Subtask.update"
    /\ InStack(op.sub)
    /\ subs[op.sub].text = <<"b">>
    /\ FieldValue(msg, op) = ArrowGlyph \o <<"b">>
    /\ Len(op.calls) = 1
    /\ op.calls[1].method = "chat.update"

\* C7 as stated: after Subtask.__enter__ the reserved field reads pending
\* glyph + text and one publish was made; after Subtask.__exit__ it reads
\* success glyph + text, or failure glyph + text if an exception was handed
\* in, one publish was made, and the glyph is the failure glyph exactly when
\* an exception was handed in.
C7_AsStated ==
    /\ op.name = "Subtask.__enter__" =>
          /\ FieldValue(msg, op) = ArrowGlyph \o subs[op.sub].text
          /\ Len(op.calls) = 1
    /\ op.name = "Subtask.__exit__" =>
          /\ FieldValue(msg, op)
               = (IF op.etype = None THEN CheckGlyph ELSE XGlyph) \o subs[op.sub].text
          /\ Len(op.calls) = 1
          /\ (subs[op.sub].prefix = XGlyph) <=> (op.etype # None)

\* C7 amended: after Subtask.__enter__ the reserved field reads the glyph
\* the object holds + text, which is the pending glyph when the object is
\* entered for the first time, and one publish was made; the part about
\* __exit__ as stated.
C7_EnterKeepsGlyph ==
    [][/\ op'.name = "Subtask.__enter__" =>
            /\ subs'[op'.sub].index = Len(msg.main.fields)
            /\ FieldValue(msg', op')
                  = subs[op'.sub].prefix \o subs[op'.sub].text
            /\ ~subs[op'.sub].has_index => subs[op'.sub].prefix = ArrowGlyph
            /\ msg'.main.fields[op'.index + 1].short = subs[op'.sub].short
            /\ Len(op'.calls) = 1
            /\ op'.calls[1].attachments = Attachments(msg')
       /\ op'.name = "Subtask.__exit__" =>
            /\ op'.index = subs[op'.sub].index
            /\ FieldValue(msg', op')
                 = (IF op'.etype = None THEN CheckGlyph ELSE XGlyph)
                      \o subs[op'.sub].text
            /\ Len(op'.calls) = 1
            /\ op'.calls[1].attachments = Attachments(msg')
            /\ (subs'[op'.sub].prefix = XGlyph) <=> (op'.etype # None)]_vars

\* a Subtask whose block raised has left its scope: the field reads
\* ':x: a', published, and the exception is still in flight
C7_Witness ==
    /\ op.name = "Subtask.__exit__"
    /\ op.etype = "BodyError"
    /\ FieldValue(msg, op) = XGlyph \o <<"a">>
    /\ Len(op.calls) = 1
    /\ exc = "BodyError"

\* position in a list of n elements that Python index i stands for (0 if none)
Slot(n, i) == IF 0 <= i /\ i < n THEN i + 1
              ELSE IF -n <= i /\ i < 0 THEN n + i + 1
              ELSE 0

\* C8: update_field(i, ...) leaves the number of fields, every field other
\* than the one at index i, and in that field every attribute for which no
\* argument was given as they were, sets the attributes given, and changes
\* nothing else of the Message (color, title, text, actions, callback_id,
\* the supplementary attachments, ts) nor of Slack.
C8_UpdateFieldFrame ==
    [][\A i \in FieldIndexes, a \in FieldArgs :
         Msg_update_field(i, a[1], a[2], a[3]) =>
            LET fs  == msg.main.fields
                fs2 == msg'.main.fields
                k   == Slot(Len(fs), i)
            IN /\ Len(fs2) = Len(fs)
               /\ \A j \in 1..Len(fs) : j # k => fs2[j] = fs[j]
               /\ (k # 0 /\ exc' = None) =>
                     /\ fs2[k].title = IF a[1] = None THEN fs[k].title ELSE a[1]
                     /\ fs2[k].value = IF a[2] = NoneText THEN fs[k].value ELSE a[2]
                     /\ fs2[k].short = IF a[3] = None THEN fs[k].short ELSE a[3]
               /\ exc' # None => fs2 = fs
               /\ [msg'.main EXCEPT !.fields = <<>>] = [msg.main EXCEPT !.fields = <<>>]
               /\ msg'.extra = msg.extra
               /\ msg'.ts = msg.ts
               /\ remote' = remote
               /\ op'.calls = <<>>]_vars

\* of two fields added as ('F', 'v', 'True'), the first has got the title
\* 'G' by update_field(0, title='G') and kept its value and short; the
\* second is as it was added
C8_Witness ==
    /\ op.name = "Message.update_field"
    /\ op.index = 0
    /\ exc = None
    /\ Len(msg.main.fields) = 2
    /\ msg.main.fields[1] = [title |-> "G", value |-> <<"v">>, short |-> "True"]
    /\ msg.main.fields[2] = [title |-> "F", value |-> <<"v">>, short |-> "True"]

\* C9 as stated: update_field and update_attachment with an index that no
\* add_field / add_attachment has returned (the returned ones are 0..len-1)
\* raise IndexError and leave the Message unchanged.
C9_AsStated ==
    [][/\ \A i \in FieldIndexes, a \in FieldArgs :
            (Msg_update_field(i, a[1], a[2], a[3])
               /\ i \notin 0..(Len(msg.main.fields) - 1))
            => (exc' = "IndexError" /\ msg' = msg)
       /\ \A i \in ExtraIndexes :
            (Msg_update_attachment(i, NewAttachment)
               /\ i \notin 0..(Len(msg.extra) - 1))
            => (exc' = "IndexError" /\ msg' = msg)]_vars

\* C9 amended: with len the length of the list, update_attachment(i, record)
\* and update_field(i, ...) with at least one attribute given raise IndexError
\* and leave the Message unchanged whenever i is outside -len..len-1; for i
\* in -len..-1 they raise nothing and work on the element at len+i; an
\* update_field with no attribute given raises nothing and changes nothing,
\* whatever the index.
C9_IndexErrorOutsideRange ==
    [][/\ \A i \in FieldIndexes, a \in FieldArgs :
            Msg_update_field(i, a[1], a[2], a[3]) =>
               LET n == Len(msg.main.fields)
               IN IF a = <<None, NoneText, None>>
                  THEN exc' = None /\ msg' = msg
                  ELSE IF i < -n \/ i >= n
                  THEN exc' = "IndexError" /\ msg' = msg
                  ELSE /\ exc' = None
                       /\ i < 0 =>
                            /\ a[1] # None => msg'.main.fields[n + i + 1].title = a[1]
                            /\ a[2] # NoneText => msg'.main.fields[n + i + 1].value = a[2]
       /\ \A i \in ExtraIndexes :
            Msg_update_attachment(i, NewAttachment) =>
               LET n == Len(msg.extra)
               IN IF i < -n \/ i >= n
                  THEN exc' = "IndexError" /\ msg' = msg
                  ELSE /\ exc' = None
                       /\ i < 0 => msg'.extra[n + i + 1] = NewAttachment]_vars

\* update_field(1, ...) on a Message with one field has raised IndexError
C9_Witness ==
    /\ op.name = "Message.update_field"
    /\ Len(msg.main.fields) = 1
    /\ op.index = 1
    /\ exc = "IndexError"

\* a step keeps list l, appends one element to it, or, if the operation is
\* one of inPlace, replaces the element at one position
ListStep(l, l2, opName, inPlace) ==
    \/ l2 = l
    \/ Len(l2) = Len(l) + 1 /\ SubSeq(l2, 1, Len(l)) = l
    \/ /\ Len(l2) = Len(l)
       /\ opName \in inPlace
       /\ Cardinality({j \in 1..Len(l) : l2[j] # l[j]}) = 1

\* C10: every operation keeps the field list and the list of supplementary
\* attachments, appends one element to it, or (update_field, Subtask.update,
\* Subtask.__exit__; update_attachment) replaces one element where it is;
\* add_field and add_attachment append and return the length the list had,
\* and so does the add_field of Subtask.__enter__.
C10_AppendOnly ==
    [][/\ ListStep(msg.main.fields, msg'.main.fields, op'.name,
                   {"Message.update_field", "Subtask.update", "Subtask.__exit__"})
       /\ ListStep(msg.extra, msg'.extra, op'.name, {"Message.update_attachment"})
       /\ op'.name = "Message.add_field" =>
             /\ op'.index = Len(msg.main.fields)
             /\ msg'.main.fields = Append(msg.main.fields,
                                          msg'.main.fields[op'.index + 1])
       /\ op'.name = "Subtask.__enter__" =>
             /\ subs'[op'.sub].index = Len(msg.main.fields)
             /\ Len(msg'.main.fields) = Len(msg.main.fields) + 1
       /\ op'.name = "Message.add_attachment" =>
             /\ op'.index = Len(msg.extra)
             /\ msg'.extra = Append(msg.extra, UserAttachment)
       /\ (op'.name = "Task.__exit__" /\ op'.etype # None /\ ~task.done) =>
             Len(msg'.extra) = Len(msg.extra) + 1]_vars

\* add_attachment has returned 1 on a Message whose attachment 0 had been
\* replaced, with two fields reserved
C10_Witness ==
    /\ op.name = "Message.add_attachment"
    /\ op.index = 1
    /\ msg.extra = <<NewAttachment, UserAttachment>>
    /\ Len(msg.main.fields) = 2

\* C11: Message.update sets the attributes of the primary attachment for
\* which an argument other than None was given and keeps the value of every
\* other one; fields, callback_id, the supplementary attachments, ts and
\* Slack are as before.
C11_UpdateFrame ==
    [][\A a \in MsgUpdateArgs :
         Msg_update(a[1], a[2], a[3], a[4]) =>
            /\ msg'.main.color   = IF a[1] = None THEN msg.main.color ELSE a[1]
            /\ msg'.main.title   = IF a[2] = None THEN msg.main.title ELSE a[2]
            /\ msg'.main.text    = IF a[3] = NoneText THEN msg.main.text ELSE a[3]
            /\ msg'.main.actions = IF a[4] = None THEN msg.main.actions ELSE a[4]
            /\ msg'.main.fields = msg.main.fields
            /\ msg'.main.callback_id = msg.main.callback_id
            /\ msg'.extra = msg.extra
            /\ msg'.ts = msg.ts
            /\ remote' = remote
            /\ exc' = None
            /\ op'.calls = <<>>]_vars

\* update(color='good') has been applied to a published Message that
\* update(title='T2', text='ok', actions='A2') had changed before: title,
\* text and actions are kept, and so are the field and the attachment
C11_Witness ==
    /\ op.name = "Message.update"
    /\ msg.main.color = "good"
    /\ msg.main.title = "T2"
    /\ msg.main.text = <<"o","k">>
    /\ msg.main.actions = "A2"
    /\ Len(msg.main.fields) = 1
    /\ Len(msg.extra) = 1
    /\ msg.ts = "ts1"

\* C12: every api call that succeeds carries the primary attachment followed
\* by the supplementary attachments in the order of their insertion, as the
\* Message holds them after the operation; a publish that follows a publish
\* with the Message unchanged makes one more api call, which carries the
\* same content.
C12_PublishSendsFullState ==
    /\ [](\A i \in 1..Len(op.calls) :
             op.calls[i].ok =>
                op.calls[i].attachments = <<msg.main>> \o msg.extra)
    /\ [][(/\ op.name = "Task.publish"
           /\ op'.name = "Task.publish"
           /\ Len(op.calls) = 1)
          => /\ Len(op'.calls) = 1
             /\ op'.calls[1].ok
             /\ op'.calls[1].attachments = op.calls[1].attachments
             /\ msg'.main = msg.main
             /\ msg'.extra = msg.extra]_vars

\* a second publish in a row has sent, as a chat.update, the primary
\* attachment with its two fields followed by the two supplementary
\* attachments, the replaced one first
C12_Witness ==
    /\ op.name = "Task.publish"
    /\ Len(op.calls) = 1
    /\ op.calls[1].method = "chat.update"
    /\ op.calls[1].attachments = <<msg.main, NewAttachment, UserAttachment>>
    /\ Len(op.calls[1].attachments[1].fields) = 2

\* C13: an operation whose api call fails has made that one call only, ends
\* with the failure raised to its caller, leaves ts and the messages of the
\* channel as they were and the content of the Message as the call carried
\* it (a bare publish leaves the whole Message unchanged, a failed __enter__
\* does not open its scope); ts is set exactly when a chat.postMessage has
\* succeeded, and is the id Slack returned for it.
C13_FailedPublishPropagates ==
    /\ []((msg.ts = None) <=> (remote = <<>>))
    /\ [](msg.ts # None => remote = <<msg.ts>>)
    /\ [][\A i \in 1..Len(op'.calls) :
            ~op'.calls[i].ok =>
               /\ Len(op'.calls) = 1
               /\ exc' = "RemoteError"
               /\ msg'.ts = msg.ts
               /\ remote' = remote
               /\ op'.calls[1].attachments = <<msg'.main>> \o msg'.extra
               /\ op'.name \in {"Task.publish", "Task.__enter__"} => msg' = msg
               /\ op'.name \in {"Task.__enter__", "Subtask.__enter__"} =>
                     stack' = stack]_vars

\* the chat.update of a Task.__exit__ that was handed the exception of the
\* block has failed: the failure is raised, ts is the one of the creation
C13_Witness ==
    /\ op.name = "Task.__exit__"
    /\ op.etype = "BodyError"
    /\ Len(op.calls) = 1
    /\ op.calls[1].method = "chat.update"
    /\ ~op.calls[1].ok
    /\ exc = "RemoteError"
    /\ msg.ts = "ts2"
    /\ remote = <<"ts2">>

\* the chat.postMessage of Task.__enter__ has failed: ts stays unset
C13_FailedCreate ==
    /\ op.name = "Task.__enter__"
    /\ ~op.calls[1].ok
    /\ msg.ts = None
    /\ stack = <<>>

InMemoryOps == {"Message.update", "Message.add_field", "Message.update_field",
                "Message.add_attachment", "Message.update_attachment",
                "Task.update"}

\* C14: Message.update, add_field, update_field, add_attachment,
\* update_attachment and Task.update make no api call and leave ts and the
\* channel as they were; the operations that make an api call are the ones
\* that run Message.publish.
C14_OnlyPublishCalls ==
    [][/\ op'.name \in InMemoryOps =>
             /\ op'.calls = <<>>
             /\ remote' = remote
             /\ msg'.ts = msg.ts
       /\ op'.calls # <<>> => op'.name \in {"Task.publish", "Task.__enter__"}]_vars

\* inside the scope of the published Task, Task.update has set color and
\* text of a Message that holds a field and an attachment, without a call
C14_Witness ==
    /\ op.name = "Task.update"
    /\ op.calls = <<>>
    /\ remote = <<"ts1">>
    /\ msg.main.color = "good"
    /\ msg.main.text = <<"o","k">>
    /\ Len(msg.main.fields) = 1
    /\ Len(msg.extra) = 1

\* operation o is Subtask.__enter__ of Subtask s
IsEnterOf(o, s) == o.name = "Subtask.__enter__" /\ o.sub = s

\* C15 as stated: once a Subtask holds an index, no operation, entering the
\* same object again included, changes it.
C15_AsStated ==
    [][\A s \in SubIds :
         subs[s].has_index =>
            (subs'[s].has_index /\ subs'[s].index = subs[s].index)]_vars

\* C15 amended: the index of a Subtask is set by each of its scope entries,
\* to the position of the field that entry appends (greater than the index
\* held before), and by nothing else; update and exit address the field of
\* the latest entry and change no other field.
C15_IndexSetOnEachEntry ==
    [][\A s \in SubIds :
         /\ IsEnterOf(op', s) =>
               /\ subs'[s].has_index
               /\ subs'[s].index = Len(msg.main.fields)
               /\ subs[s].has_index => subs'[s].index > subs[s].index
         /\ ~IsEnterOf(op', s) =>
               /\ subs'[s].index = subs[s].index
               /\ subs'[s].has_index = subs[s].has_index
         /\ (op'.name \in {"Subtask.update", "Subtask.__exit__"}
               /\ op'.sub = s /\ subs[s].has_index) =>
               /\ op'.index = subs[s].index
               /\ \A j \in 1..Len(msg.main.fields) :
                     j # subs[s].index + 1 =>
                        msg'.main.fields[j] = msg.main.fields[j]]_vars

\* Subtask 1 has been entered a second time: it holds index 1, and field 0,
\* reserved by its first entry, still shows the glyph of its exit
C15_Witness ==
    /\ IsEnterOf(op, 1)
    /\ subs[1].index = 1
    /\ ~subs[2].has_index
    /\ Len(msg.main.fields) = 2
    /\ msg.main.fields[1].value = CheckGlyph \o <<"a">>

\* operation o is an operation of Subtask s
IsSubtaskOp(o, s) ==
    /\ o.name \in {"Subtask.__enter__", "Subtask.update", "Subtask.__exit__"}
    /\ o.sub = s

\* C16: whatever the interleaving of enter, update and exit of the Subtasks
\* of one Task, two Subtasks that have been entered hold different indexes,
\* each entry appends its field behind the fields of the entries before it,
\* after each operation of an entered Subtask the field at its index is its
\* glyph + its text, and an operation of one Subtask leaves the fields of
\* the others as they were.
C16_SubtaskFieldsIndependent ==
    [][\A s \in SubIds :
         /\ \A t \in SubIds :
               (s # t /\ subs'[s].has_index /\ subs'[t].has_index) =>
                  subs'[s].index # subs'[t].index
         /\ IsEnterOf(op', s) =>
               /\ Len(msg'.main.fields) = Len(msg.main.fields) + 1
               /\ subs'[s].index = Len(msg.main.fields)
               /\ SubSeq(msg'.main.fields, 1, Len(msg.main.fields))
                     = msg.main.fields
         /\ (IsSubtaskOp(op', s) /\ subs'[s].has_index) =>
               /\ subs'[s].index < Len(msg'.main.fields)
               /\ msg'.main.fields[subs'[s].index + 1].value
                     = subs'[s].prefix \o subs'[s].text
               /\ \A t \in SubIds :
                     (t # s /\ subs[t].has_index) =>
                        /\ subs'[t] = subs[t]
                        /\ msg'.main.fields[subs[t].index + 1]
                              = msg.main.fields[subs[t].index + 1]]_vars

\* Subtask 2, nested in Subtask 1, has just been given another text: both
\* are active, and each field shows its own Subtask
C16_Witness ==
    /\ op.name = "Subtask.update" /\ op.sub = 2
    /\ stack = <<TaskScope, 1, 2>>
    /\ subs[1].index = 0 /\ subs[2].index = 1
    /\ msg.main.fields[1].value = ArrowGlyph \o <<"a">>
    /\ msg.main.fields[2].value = ArrowGlyph \o <<"b">>

\* C17: every exit of the Task scope runs its handler to the end (it raises
\* nothing of its own) and publishes exactly once, with or without body text,
\* status_prefix and exception; when done is not set the published color is
\* good without an exception and danger with one, and a Task built without
\* body text publishes the text the Message held.
C17_EveryExitPublishesOnce ==
    [][op'.name = "Task.__exit__" =>
          /\ Len(op'.calls) = 1
          /\ exc' = exc
          /\ ~task.done =>
                SentMain(op').color = IF exc = None THEN "good" ELSE "danger"
          /\ task.text = NoneText => SentMain(op').text = msg.main.text]_vars

\* the same for the Tasks built with a body text
C17_HoldsWithText ==
    [][(op'.name = "Task.__exit__" /\ task.text # NoneText) =>
          /\ Len(op'.calls) = 1
          /\ exc' = exc
          /\ ~task.done =>
                SentMain(op').color = IF exc = None THEN "good" ELSE "danger"]_vars

\* the text Task.update(text='ok') stores in the Message
UpdatedText == <<"o","k">>

\* C18: when the block has replaced the body text through Task.update and
\* done is not set, the text published at exit is built from the text the
\* Message held when the block ended: that text, after at most one of the
\* exit prefixes, followed by the elapsed-time suffix.
C18_ExitKeepsUpdatedText ==
    [][(/\ op'.name = "Task.__exit__"
        /\ ~task.done
        /\ task.text # NoneText
        /\ msg.main.text = UpdatedText) =>
          /\ Len(op'.calls) = 1
          /\ \E prefix \in {<<>>, FinishedPrefix, FailedPrefix} :
                SentMain(op').text
                   = prefix \o msg.main.text \o TookSuffix(Elapsed(task'))]_vars

\* Subtask s has left its scope with an exception
FailedSubtask(s) == subs[s].has_index /\ subs[s].prefix = XGlyph

\* what C19 says of one step of the program
NestedErrorStep ==
    /\ (op'.name = "Subtask.__exit__" /\ exc # None) =>
          /\ Len(op'.calls) = 1
          /\ SentMain(op').fields[op'.index + 1].value
                = XGlyph \o subs[op'.sub].text
          /\ exc' = exc
    /\ (op'.name = "Task.__exit__" /\ exc # None /\ ~task.done
          /\ \E s \in SubIds : FailedSubtask(s)) =>
          /\ Len(op'.calls) = 1
          /\ SentMain(op').color = "danger"
          /\ \A s \in SubIds : FailedSubtask(s) =>
                SentMain(op').fields[subs[s].index + 1].value
                   = XGlyph \o subs[s].text
          /\ Len(op'.calls[1].attachments) = 2
          /\ op'.calls[1].attachments[2] = TracebackAttachment(exc)
          /\ exc' = exc
    /\ (op'.name \in {"Task.__enter__", "Subtask.__enter__"}) =>
          Len(op'.calls) = 1

\* C19: an exception raised in a Subtask scope nested in a Task scope makes
\* the Subtask's exit publish once with the failure glyph in its field and
\* stay in flight; the Task's exit that follows (done not set) publishes
\* once, with color danger, that field still carrying the failure glyph and
\* exactly one trace attachment, and the exception reaches the caller; every
\* enter and every exit of a scope publishes once.
C19_NestedErrorPublishedInOrder == [][NestedErrorStep]_vars

\* the same for the Tasks built with a body text
C19_HoldsWithText == [][task.text # NoneText => NestedErrorStep]_vars

\* ' (took 0m 00.12s)'
TookZeroPadded ==
    <<" ","(","t","o","o","k"," ","0","m"," ","0","0",".","1","2","s",")">>

\* C20: the Task built with status_prefix and text 'Build the project' that
\* leaves its scope without exception after 0.12 s (done not set) publishes
\* the text 'Finished build the project (took 0m 00.12s)': whole minutes,
\* then the seconds with two decimals and an integer part zero padded to two
\* digits.
C20_SuffixZeroPadded ==
    (/\ op.name = "Task.__exit__"
     /\ Len(op.calls) = 1
     /\ op.etype = None
     /\ task.status_prefix
     /\ ~task.done
     /\ Elapsed(task) = 12
     /\ Len(task.text) > Len(BuildTheProject)
     /\ SubSeq(task.text, 1, Len(BuildTheProject)) = NormalizeText(BuildTheProject))
    => SentMain(op).text
          = FinishedPrefix \o NormalizeText(BuildTheProject) \o TookZeroPadded

\* what that Task publishes: the seconds are not padded
C20_SuffixUnpadded ==
    (/\ op.name = "Task.__exit__"
     /\ Len(op.calls) = 1
     /\ op.etype = None
     /\ task.status_prefix
     /\ ~task.done
     /\ Elapsed(task) = 12
     /\ Len(task.text) > Len(BuildTheProject)
     /\ SubSeq(task.text, 1, Len(BuildTheProject)) = NormalizeText(BuildTheProject))
    => SentMain(op).text
          = FinishedPrefix \o NormalizeText(BuildTheProject)
              \o <<" ","(","t","o","o","k"," ","0","m"," ","0",".","1","2","s",")">>
====
